---- MODULE Spec2Model ----
(***************************************************************************)
(* A model of drizzlepac's output-product assembly                         *)
(* (lib/drizzlepac/outputimage.py): the OutputImage object, its            *)
(* construction from the chip records and the three mode flags, and        *)
(* writeFITS with the file system it acts on; and of the pixel map of      *)
(* lib/drizzlepac/calc_pixmap.py.                                          *)
(*                                                                         *)
(* Python values are modelled as follows.  A dictionary or a FITS header   *)
(* is a function from its keys to its values; header keywords are written  *)
(* in upper case (pyfits looks keywords up case-insensitively).  None is   *)
(* the string None where a string is expected and the object NoneObj where *)
(* a header, a dictionary or a WCS is expected; exposure times are         *)
(* integers and 0 stands for "not computed".  `del header[key]` of a       *)
(* keyword that is absent does nothing: writeFITS relies on that at lines  *)
(* 273-274 and 370-371.  A header card is its keyword and its value; the   *)
(* comments of the cards are not part of the state.                        *)
(***************************************************************************)
EXTENDS Integers, Sequences, FiniteSets, TLC

\* ----------------------------------------------------------------- bounds

\* The longest list of chip records the model builds.
MaxChips == 2

\* The longest axis of the images calc_pixmap is given.
MaxAxis == 3

\* ------------------------------------------------------------ Python values

None == "<None>"

NoneObj == [k \in {"<None>"} |-> "<None>"]

\* Truth value of an optional string: None and '' are false.
Truthy(s) == s # None /\ s # ""

EmptyHeader == [k \in {} |-> ""]

\* header.has_key(key) / key in header
HasKey(h, k) == k \in DOMAIN h

\* header.update(key, value) / dict[key] = value
Update(h, k, v) == [x \in (DOMAIN h) \cup {k} |-> IF x = k THEN v ELSE h[x]]

\* del header[key]: silently nothing when the keyword is absent, as the
\* unguarded deletions of lines 273-274 and 370-371 need it to be
Delete(h, k) == [x \in (DOMAIN h) \ {k} |-> h[x]]

\* dict.update(other)
DictUpdate(p, q) ==
  [x \in (DOMAIN p) \cup (DOMAIN q) |-> IF x \in DOMAIN q THEN q[x] ELSE p[x]]

\* s[:n]
Slice(s, n) == IF Len(s) > n THEN SubSeq(s, 1, n) ELSE s

\* s.find(sub): the 0-based index of the first occurrence, -1 when there is none
Find(s, sub) ==
  LET hits == {i \in 1..(Len(s) - Len(sub) + 1) : SubSeq(s, i, i + Len(sub) - 1) = sub}
  IN  IF hits = {} THEN -1
      ELSE (CHOOSE i \in hits : \A j \in hits : i <= j) - 1

Digits == <<"0", "1", "2", "3", "4", "5", "6", "7", "8", "9">>

RECURSIVE Str(_)
\* '%d' % n, n >= 0
Str(n) == IF n < 10 THEN Digits[n + 1] ELSE Str(n \div 10) \o Digits[(n % 10) + 1]

\* '%03d' % n: zero-padded to at least three digits
Fmt03d(n) ==
  LET s == Str(n)
  IN  IF Len(s) >= 3 THEN s
      ELSE IF Len(s) = 2 THEN "0" \o s
      ELSE "00" \o s

\* ---------------------------------------------------- module-level constants

RESERVED_KEYS == {"NAXIS", "BITPIX", "DATE", "IRAF-TLM", "XTENSION", "EXTNAME", "EXTVER"}

EXTLIST == <<"SCI", "WHT", "CTX">>

WCS_KEYWORDS == <<"CD1_1", "CD1_2", "CD2_1", "CD2_2", "CRPIX1",
                  "CRPIX2", "CRVAL1", "CRVAL2", "CTYPE1", "CTYPE2", "WCSNAME">>

WCSKeys == {WCS_KEYWORDS[i] : i \in 1..Len(WCS_KEYWORDS)}

DrizCodes == {"VER", "GEOM", "DATA", "DEXP", "OUDA", "OUWE", "OUCO", "MASK",
              "WTSC", "KERN", "PIXF", "COEF", "OUUN", "FVAL", "WKEY"}

DrizDefaultValue(code) ==
  CASE code = "GEOM" -> "wcs"
    [] code = "PIXF" -> "1.0"
    [] code = "COEF" -> "SIP"
    [] code = "OUUN" -> "cps"
    [] code = "FVAL" -> "INDEF"
    [] OTHER -> ""

DrizComment(code) ==
  CASE code = "VER"  -> "Drizzle, task version"
    [] code = "GEOM" -> "Drizzle, source of geometric information"
    [] code = "DATA" -> "Drizzle, input data image"
    [] code = "DEXP" -> "Drizzle, input image exposure time (s)"
    [] code = "OUDA" -> "Drizzle, output data image"
    [] code = "OUWE" -> "Drizzle, output weighting image"
    [] code = "OUCO" -> "Drizzle, output context image"
    [] code = "MASK" -> "Drizzle, input weighting image"
    [] code = "WTSC" -> "Drizzle, weighting factor for input image"
    [] code = "KERN" -> "Drizzle, form of weight distribution kernel"
    [] code = "PIXF" -> "Drizzle, linear size of drop"
    [] code = "COEF" -> "Drizzle, source of coefficients"
    [] code = "OUUN" -> "Drizzle, units of output image - counts or cps"
    [] code = "FVAL" -> "Drizzle, fill value for zero weight output pix"
    [] code = "WKEY" -> "Input image WCS Version used"
    [] code = "SCAL" -> "Drizzle, pixel size (arcsec) of output image"
    [] code = "ISCL" -> "Drizzle, default IDCTAB pixel size(arcsec)"

\* The module-level dictionary as the import leaves it.
DRIZ_KEYWORDS_default ==
  [code \in DrizCodes |-> [value |-> DrizDefaultValue(code), comment |-> DrizComment(code)]]

\* --------------------------------------------------------------------- state

VARIABLES
  pc,             \* where the caller is: new, constructed, the steps of writeFITS, done, raised
  exc,            \* the exception a raised call ended with
  plist,          \* the caller's list of chip records (self.parlist shares it)
  args,           \* the arguments of the call (constructor and writeFITS, or calc_pixmap)
  self,           \* the OutputImage object's attributes
  DRIZ_KEYWORDS,  \* the module-level dictionary
  fs,             \* the file system: path -> file, for the paths that exist
  fslog,          \* the file-system operations of the call so far
  loc             \* the local variables of the function that runs

vars == <<pc, exc, plist, args, self, DRIZ_KEYWORDS, fs, fslog, loc>>

\* ------------------------------------------------------------- chip records

\* The exposure-time window a chip record reports.
TimeWindows ==
  { [texptime |-> 100, texpstart |-> 0,   texpend |-> 100],
    [texptime |-> 200, texpstart |-> 100, texpend |-> 300],
    [texptime |-> 0,   texpstart |-> 50,  texpend |-> 60] }

LongName == "j8bt06nyq_a_very_long_input_file_name_that_runs_past_the_sixty_four_characters_flt.fits"

\* Chip record number i: the output names of a chip and its drizzle parameters.
ChipRecord(i, out, tw, ow, oc, wt, ex, dataname) ==
  [ output         |-> out,
    outFinal       |-> "final_drz.fits",
    outSci         |-> "final_drz_sci.fits",
    outWeight      |-> IF ow THEN "final_drz_weight.fits" ELSE None,
    outContext     |-> IF oc THEN "final_drz_context.fits" ELSE None,
    outSingle      |-> "chip" \o Str(i) \o "_single_sci.fits",
    outSWeight     |-> IF ow THEN "chip" \o Str(i) \o "_single_wht.fits" ELSE None,
    outSContext    |-> IF oc THEN "chip" \o Str(i) \o "_single_ctx.fits" ELSE None,
    blotImage      |-> "chip" \o Str(i) \o "_blt.fits",
    outnx          |-> 4,
    outny          |-> 3,
    blotnx         |-> 2,
    blotny         |-> 5,
    texptime       |-> tw.texptime,
    texpstart      |-> tw.texpstart,
    texpend        |-> tw.texpend,
    exptime        |-> ex,
    wt_scl         |-> wt,
    driz_version   |-> "4.2.15",
    data           |-> dataname,
    singleDrizMask |-> "chip" \o Str(i) \o "_single_mask.fits",
    finalMask      |-> "chip" \o Str(i) \o "_final_mask.fits",
    kernel         |-> "square",
    pixfrac        |-> "1.0",
    fillval        |-> IF i = 1 THEN None ELSE "0.0",
    driz_wcskey    |-> "A",
    scale          |-> "0.05",
    idcscale       |-> "0.04" \o Str(i),
    nimages        |-> 2 ]

\* ------------------------------------------------------ OutputImage.__init__

\* The merge of input_pars into every chip record (lines 95-96).
MergePars(pl, input_pars) == [i \in 1..Len(pl) |-> DictUpdate(pl[i], input_pars)]

\* _outdata as lines 112-134 leave it.
InitOutdata(pl, build, single, blot) ==
  IF blot THEN pl[1].blotImage
  ELSE IF single THEN pl[1].outSingle
  ELSE IF build THEN pl[1].outFinal
  ELSE pl[1].outSci

\* A slip that lets the single-exposure name win over the blot image.
InitOutput_noBlot(pl, build, single, blot) ==
  IF (~build) \/ single
    THEN (IF single THEN pl[1].outSingle ELSE InitOutdata(pl, build, single, blot))
    ELSE (IF ~blot THEN pl[1].output ELSE pl[1].blotImage)

\* self.output: lines 98-103, overridden at lines 136-137.
InitOutput(pl, build, single, blot) ==
  IF (~build) \/ single
    THEN InitOutdata(pl, build, single, blot)
    ELSE (IF ~blot THEN pl[1].output ELSE pl[1].blotImage)

InitShape(pl, blot) ==
  IF ~blot THEN <<pl[1].outny, pl[1].outnx>> ELSE <<pl[1].blotny, pl[1].blotnx>>

InitOutweight(pl, single) == IF single THEN pl[1].outSWeight ELSE pl[1].outWeight

InitOutcontext(pl, single) == IF single THEN pl[1].outSContext ELSE pl[1].outContext

\* A slip that reads the end of the window from the first record in every mode.
InitExpend_first(pl, single) == pl[1].texpend

\* self.expend: line 119 (single) and line 130 (combined).
InitExpend(pl, single) == IF single THEN pl[1].texpend ELSE pl[Len(pl)].texpend

OutputImage_init ==
  /\ pc = "new"
  /\ LET pl == MergePars(plist, args.input_pars)
     IN  /\ plist' = pl
         /\ self' = [ build      |-> args.build,
                      single     |-> args.single,
                      input_pars |-> args.input_pars,
                      bunit      |-> None,
                      units      |-> "cps",
                      blot       |-> args.blot,
                      output     |-> InitOutput(pl, args.build, args.single, args.blot),
                      shape      |-> InitShape(pl, args.blot),
                      wcs        |-> args.wcs,
                      texptime   |-> pl[1].texptime,
                      expstart   |-> pl[1].texpstart,
                      expend     |-> InitExpend(pl, args.single),
                      outdata    |-> InitOutdata(pl, args.build, args.single, args.blot),
                      outweight  |-> InitOutweight(pl, args.single),
                      outcontext |-> InitOutcontext(pl, args.single) ]
  /\ pc' = "constructed"
  /\ UNCHANGED <<exc, args, DRIZ_KEYWORDS, fs, fslog, loc>>

\* The units a caller sets.
BunitValues == {"COUNTS"}
UnitsValues == {"counts"}

set_bunit ==
  /\ pc = "constructed"
  /\ \E bunit \in BunitValues : self' = [self EXCEPT !.bunit = bunit]
  /\ UNCHANGED <<pc, exc, plist, args, DRIZ_KEYWORDS, fs, fslog, loc>>

set_units ==
  /\ pc = "constructed"
  /\ \E units \in UnitsValues : self' = [self EXCEPT !.units = units]
  /\ UNCHANGED <<pc, exc, plist, args, DRIZ_KEYWORDS, fs, fslog, loc>>

\* ----------------------------------------------------------- the file system

\* fileutil.findFile(path)
findFile(files, path) == path \in DOMAIN files

\* fileutil.removeFile(path): removes the file when it exists
removeFile(files, path) == [x \in (DOMAIN files) \ {path} |-> files[x]]

\* A file that was on disk before the call.
OldFile == [old |-> TRUE, hdus |-> <<>>]

NewFile(hdus) == [old |-> FALSE, hdus |-> hdus]

\* HDUList.writeto(path): pyfits refuses to overwrite an existing file
writetoRaises(files, path) == findFile(files, path)

writeto(files, path, hdus) ==
  [x \in (DOMAIN files) \cup {path} |-> IF x = path THEN NewFile(hdus) ELSE files[x]]

LogRemove(files, path) ==
  IF findFile(files, path) THEN <<[op |-> "remove", path |-> path]>> ELSE <<>>

LogWrite(path) == <<[op |-> "write", path |-> path]>>

\* ------------------------------------------------- writeFITS: collision policy

\* A slip that deletes the previous product before looking at overwrite.
CollideOutput_removeFirst(files, path, overwrite) ==
  [ raise  |-> findFile(files, path) /\ ~overwrite,
    remove |-> findFile(files, path) ]

\* Lines 164-174: the product self.output.
CollideOutput(files, path, overwrite) ==
  [ raise  |-> findFile(files, path) /\ ~overwrite,
    remove |-> findFile(files, path) /\ overwrite ]

\* Lines 180-191 (weight) and 194-205 (context): the file is looked for only to
\* log its deletion; without overwrite the call raises whether it exists or not.
CollideExtra(files, path, overwrite) ==
  [ raise  |-> Truthy(path) /\ ~overwrite,
    remove |-> Truthy(path) /\ overwrite ]

Raise(e) ==
  /\ pc' = "raised"
  /\ exc' = e

writeFITS_output ==
  /\ pc = "constructed"
  /\ LET c == CollideOutput(fs, self.output, args.overwrite)
     IN  /\ IF c.raise
              THEN Raise("IOError")
              ELSE /\ pc' = IF self.build THEN "templates" ELSE "weight"
                   /\ exc' = exc
         /\ fs' = IF c.remove THEN removeFile(fs, self.output) ELSE fs
         /\ fslog' = IF c.remove THEN fslog \o LogRemove(fs, self.output) ELSE fslog
  /\ UNCHANGED <<plist, args, self, DRIZ_KEYWORDS, loc>>

writeFITS_weight ==
  /\ pc = "weight"
  /\ LET c == CollideExtra(fs, self.outweight, args.overwrite)
     IN  /\ IF c.raise
              THEN Raise("IOError")
              ELSE /\ pc' = "context"
                   /\ exc' = exc
         /\ fs' = IF c.remove THEN removeFile(fs, self.outweight) ELSE fs
         /\ fslog' = IF c.remove THEN fslog \o LogRemove(fs, self.outweight) ELSE fslog
  /\ UNCHANGED <<plist, args, self, DRIZ_KEYWORDS, loc>>

writeFITS_context ==
  /\ pc = "context"
  /\ LET c == CollideExtra(fs, self.outcontext, args.overwrite)
     IN  /\ IF c.raise
              THEN Raise("IOError")
              ELSE /\ pc' = "templates"
                   /\ exc' = exc
         /\ fs' = IF c.remove THEN removeFile(fs, self.outcontext) ELSE fs
         /\ fslog' = IF c.remove THEN fslog \o LogRemove(fs, self.outcontext) ELSE fslog
  /\ UNCHANGED <<plist, args, self, DRIZ_KEYWORDS, loc>>

\* ------------------------------------------------------- template headers

IsNone(h) == "<None>" \in DOMAIN h

StripScale(h) == Delete(Delete(h, "BSCALE"), "BZERO")

\* A slip that leaves the error and data-quality headers as they came.
SyncWCS_skip(hdr, scihdr) == hdr

\* Lines 524-528, for one of the two headers: a keyword of WCS_KEYWORDS the
\* header lacks is copied from the science header.
SyncWCS(hdr, scihdr) ==
  [k \in (DOMAIN hdr) \cup WCSKeys |-> IF k \in DOMAIN hdr THEN hdr[k] ELSE scihdr[k]]

\* cleanTemplates: the six deletions share one try block, so the first header
\* that is None ends them; the copy of the WCS keywords raises when the science
\* header is None or lacks a keyword it is asked for.
cleanTemplates(scihdr, errhdr, dqhdr) ==
  LET sciOk == ~IsNone(scihdr)
      errOk == sciOk /\ ~IsNone(errhdr)
      dqOk  == errOk /\ ~IsNone(dqhdr)
      sci1  == IF sciOk THEN StripScale(scihdr) ELSE scihdr
      err1  == IF errOk THEN StripScale(errhdr) ELSE errhdr
      dq1   == IF dqOk THEN StripScale(dqhdr) ELSE dqhdr
      sync  == ~IsNone(errhdr) /\ ~IsNone(dqhdr)
      asked == IF sync THEN WCSKeys \ ((DOMAIN err1) \cap (DOMAIN dq1)) ELSE {}
      e     == IF asked = {} THEN None
               ELSE IF IsNone(sci1) THEN "TypeError"
               ELSE IF ~(asked \subseteq DOMAIN sci1) THEN "KeyError"
               ELSE None
  IN  IF e # None
        THEN [exc |-> e, sci |-> sci1, err |-> err1, dq |-> dq1]
        ELSE [exc |-> None,
              sci |-> sci1,
              err |-> IF asked = {} THEN err1 ELSE SyncWCS(err1, sci1),
              dq  |-> IF asked = {} THEN dq1 ELSE SyncWCS(dq1, sci1)]

\* getTemplates: the header blending service returns the four headers of the
\* template and, when it blends, the table of combined keyword values.
getTemplates(template, blend) ==
  LET c == cleanTemplates(template.sci, template.err, template.dq)
  IN  [ exc    |-> c.exc,
        prihdr |-> template.pri,
        scihdr |-> c.sci,
        errhdr |-> c.err,
        dqhdr  |-> c.dq,
        newtab |-> IF ~blend THEN None ELSE template.tab ]

\* A slip that forgets the table extension.
Nextend_noTable(build, newtab) == IF build THEN 3 ELSE 0

\* Lines 177-179 and 221.
Nextend(build, newtab) ==
  (IF build THEN 3 ELSE 0) + (IF newtab # None THEN 1 ELSE 0)

writeFITS_templates ==
  /\ pc = "templates"
  /\ LET blend == IF self.single THEN FALSE ELSE args.blend
         t     == getTemplates(args.template, blend)
     IN  IF t.exc # None
           THEN /\ Raise(t.exc)
                /\ loc' = loc
           ELSE /\ loc' = [ nextend |-> Nextend(self.build, t.newtab),
                            prihdr  |-> t.prihdr,
                            scihdr  |-> t.scihdr,
                            errhdr  |-> t.errhdr,
                            dqhdr   |-> t.dqhdr,
                            newtab  |-> t.newtab ]
                /\ pc' = "headers"
                /\ exc' = exc
  /\ UNCHANGED <<plist, args, self, DRIZ_KEYWORDS, fs, fslog>>

\* ----------------------------------------------------------- addWCSKeywords

\* blendheaders.remove_distortion_keywords: the keywords of the distortion model.
DistortionKeys == {"A_ORDER", "B_ORDER", "TDDALPHA", "TDDBETA", "D2IMEXT", "NPOLEXT"}

remove_distortion_keywords(hdr) == [k \in (DOMAIN hdr) \ DistortionKeys |-> hdr[k]]

addWCSKeywords(wcs, hdr, blot) ==
  LET fixed == [ ORIENTAT |-> wcs.orientat,
                 CD1_1    |-> wcs.wcs.cd[1][1],
                 CD1_2    |-> wcs.wcs.cd[1][2],
                 CD2_1    |-> wcs.wcs.cd[2][1],
                 CD2_2    |-> wcs.wcs.cd[2][2],
                 CRVAL1   |-> wcs.wcs.crval[1],
                 CRVAL2   |-> wcs.wcs.crval[2],
                 CRPIX1   |-> wcs.wcs.crpix[1],
                 CRPIX2   |-> wcs.wcs.crpix[2],
                 WCSNAME  |-> wcs.wcs.name,
                 VAFACTOR |-> "1.0" ]
      h1 == DictUpdate(hdr, fixed)
      h2 == IF ~HasKey(h1, "CTYPE1")
              THEN Update(Update(h1, "CTYPE1", wcs.wcs.ctype[1]), "CTYPE2", wcs.wcs.ctype[2])
              ELSE h1
  IN  IF ~blot THEN remove_distortion_keywords(h2) ELSE h2

\* ------------------------------------------- writeFITS: the primary header

\* Lines 237-241: the output name up to '_drz'.
Rootname(output) ==
  LET indx == Find(output, "_drz")
  IN  IF indx < 0 THEN output ELSE SubSeq(output, 1, indx)

\* A slip that stamps the exposure-time window only for forward products.
StampWindow_notBlot(hdr, obj) ==
  IF obj.texptime # 0 /\ ~obj.blot
    THEN Update(Update(Update(hdr, "EXPTIME", obj.texptime),
                       "EXPSTART", obj.expstart), "EXPEND", obj.expend)
    ELSE hdr

\* Lines 247-250: the template's values stay when texptime was not computed.
StampWindow(hdr, obj) ==
  IF obj.texptime # 0
    THEN Update(Update(Update(hdr, "EXPTIME", obj.texptime),
                       "EXPSTART", obj.expstart), "EXPEND", obj.expend)
    ELSE hdr

\* Lines 229-264.
PrimaryHeader(prihdr, nextend, obj, nimgs) ==
  LET h1 == Update(prihdr, "EXTEND", TRUE)
      h2 == Update(h1, "NEXTEND", nextend)
      h3 == Update(h2, "FILENAME", obj.output)
      h4 == Update(h3, "ROOTNAME", Rootname(obj.output))
      h5 == StampWindow(h4, obj)
      h6 == Update(h5, "ASN_MTYP", "PROD-DTH")
      h7 == IF HasKey(h6, "DRIZCORR") THEN Update(h6, "DRIZCORR", "COMPLETE") ELSE h6
      h8 == IF HasKey(h7, "DITHCORR") THEN Update(h7, "DITHCORR", "COMPLETE") ELSE h7
  IN  Update(h8, "NDRIZIM", nimgs)

\* --------------------------------------------------------- addDrizKeywords

\* driz_version[:44]
VerLen == 44
\* the file names [:64]
NameLen == 64

\* A slip that squares the exposure time in both modes.
WtScl_square(pl) ==
  IF pl.wt_scl = "exptime" THEN pl.exptime * pl.exptime
  ELSE IF pl.wt_scl = "expsq" THEN pl.exptime * pl.exptime
  ELSE pl.wt_scl

\* Lines 476-478.
WtScl(pl) ==
  IF pl.wt_scl = "exptime" THEN pl.exptime
  ELSE IF pl.wt_scl = "expsq" THEN pl.exptime * pl.exptime
  ELSE pl.wt_scl

SetValue(dk, code, v) == [dk EXCEPT ![code] = [@ EXCEPT !.value = v]]

\* Lines 457-491 for one chip record.  drizdict is a shallow copy of
\* DRIZ_KEYWORDS: the two share the entry of every code, so the assignments to
\* an entry's 'value' are made in DRIZ_KEYWORDS too, while SCAL and ISCL are new
\* keys of the copy alone.  pl['outWeight'][:64] raises when the name is None.
DrizDict(dk, pl, obj) ==
  LET d1 == SetValue(dk, "VER", Slice(pl.driz_version, VerLen))
      d2 == SetValue(d1, "DATA", Slice(pl.data, NameLen))
      d3 == SetValue(d2, "DEXP", pl.exptime)
      d4 == SetValue(d3, "OUDA", Slice(pl.outFinal, NameLen))
  IN  IF pl.outWeight = None
        THEN [exc |-> "TypeError", shared |-> d4, drizdict |-> d4]
        ELSE
  LET d5  == SetValue(d4, "OUWE", Slice(pl.outWeight, NameLen))
      d6  == SetValue(d5, "OUCO",
                      IF pl.outContext = None THEN "" ELSE Slice(pl.outContext, NameLen))
      d7  == SetValue(d6, "MASK",
                      IF obj.single THEN Slice(pl.singleDrizMask, NameLen)
                      ELSE Slice(pl.finalMask, NameLen))
      d8  == SetValue(d7, "WTSC", WtScl(pl))
      d9  == SetValue(d8, "KERN", pl.kernel)
      d10 == SetValue(d9, "PIXF", pl.pixfrac)
      d11 == SetValue(d10, "OUUN", obj.units)
      d12 == SetValue(d11, "FVAL", IF pl.fillval = None THEN "INDEF" ELSE pl.fillval)
      d13 == SetValue(d12, "WKEY", pl.driz_wcskey)
      own == [ SCAL |-> [value |-> pl.scale, comment |-> DrizComment("SCAL")],
               ISCL |-> [value |-> pl.idcscale, comment |-> DrizComment("ISCL")] ]
  IN  [exc |-> None, shared |-> d13, drizdict |-> DictUpdate(d13, own)]

\* A slip that drops the zero padding of the chip number.
KeyPrefix_unpadded(imgnum) == "D" \o Str(imgnum)

\* Line 650: 'D%03d' % imgnum
KeyPrefix(imgnum) == "D" \o Fmt03d(imgnum)

\* writeDrizKeywords: one card per entry of drizdict.  A value of None would be
\* written as ''; addDrizKeywords leaves none (lines 464-468 and 483-487).
writeDrizKeywords(hdr, imgnum, drizdict) ==
  LET keys == {KeyPrefix(imgnum) \o code : code \in DOMAIN drizdict}
      codeOf(k) == CHOOSE code \in DOMAIN drizdict : KeyPrefix(imgnum) \o code = k
  IN  [k \in (DOMAIN hdr) \cup keys |->
         IF k \in keys THEN drizdict[codeOf(k)].value ELSE hdr[k]]

RECURSIVE HistoryLines(_, _)
\* One HISTORY line per component of versions (lines 501-503).
HistoryLines(versions, left) ==
  IF left = {} THEN <<>>
  ELSE LET k == CHOOSE x \in left : TRUE
       IN  <<"    " \o k \o " Version " \o versions[k]>> \o HistoryLines(versions, left \ {k})

add_history(hdr, line) ==
  Update(hdr, "HISTORY", (IF HasKey(hdr, "HISTORY") THEN hdr["HISTORY"] ELSE <<>>) \o line)

RECURSIVE DrizLoop(_, _, _, _, _)
\* The loop of lines 450-495, from chip record number imgnum on.
DrizLoop(hdr, dk, pl, obj, imgnum) ==
  IF imgnum > Len(pl) THEN [exc |-> None, hdr |-> hdr, shared |-> dk]
  ELSE LET d == DrizDict(dk, pl[imgnum], obj)
       IN  IF d.exc # None THEN [exc |-> d.exc, hdr |-> hdr, shared |-> d.shared]
           ELSE DrizLoop(writeDrizKeywords(hdr, imgnum, d.drizdict), d.shared, pl, obj, imgnum + 1)

addDrizKeywords(hdr, dk, pl, obj, versions) ==
  LET r == DrizLoop(hdr, dk, pl, obj, 1)
  IN  IF r.exc # None \/ IsNone(versions) THEN r
      ELSE [r EXCEPT !.hdr =
              add_history(r.hdr, <<"PyDrizzle processing performed using: ">>
                                 \o HistoryLines(versions, DOMAIN versions))]

\* ------------------------------------------ writeFITS: the science header

\* Lines 272-294.
ScienceHeader(scihdr, obj, pl) ==
  IF IsNone(scihdr) THEN scihdr
  ELSE
  LET h1 == Delete(Delete(scihdr, "MDRIZSKY"), "OBJECT")
      h2 == IF HasKey(h1, "CCDCHIP") THEN Update(h1, "CCDCHIP", "-999") ELSE h1
      h3 == IF HasKey(h2, "NCOMBINE") THEN Update(h2, "NCOMBINE", pl[1].nimages) ELSE h2
      h4 == IF obj.bunit # None THEN Update(h3, "BUNIT", obj.bunit) ELSE h3
  IN  IF ~IsNone(obj.wcs) THEN addWCSKeywords(obj.wcs, h4, obj.blot) ELSE h4

writeFITS_headers ==
  /\ pc = "headers"
  /\ LET pri == PrimaryHeader(loc.prihdr, loc.nextend, self, Len(plist))
         d   == IF ~self.blot
                  THEN addDrizKeywords(pri, DRIZ_KEYWORDS, plist, self, args.versions)
                  ELSE [exc |-> None, hdr |-> pri, shared |-> DRIZ_KEYWORDS]
     IN  /\ DRIZ_KEYWORDS' = d.shared
         /\ IF d.exc # None
              THEN /\ Raise(d.exc)
                   /\ loc' = [loc EXCEPT !.prihdr = d.hdr]
              ELSE /\ loc' = [loc EXCEPT !.prihdr = d.hdr,
                                         !.scihdr = ScienceHeader(loc.scihdr, self, plist)]
                   /\ pc' = IF self.build THEN "combined" ELSE "science"
                   /\ exc' = exc
  /\ UNCHANGED <<plist, args, self, fs, fslog>>

\* ------------------------------------------------------ writeFITS: emission

\* pyfits.PrimaryHDU(data, header) and pyfits.ImageHDU(data, header, name): the
\* HDU gets a header of its own with the cards of the one it is given.
PrimaryHDU(data, header) ==
  [kind |-> "PRIMARY", data |-> data, header |-> IF IsNone(header) THEN EmptyHeader ELSE header]

ImageHDU(data, header, name) ==
  [kind   |-> "IMAGE",
   data   |-> data,
   header |-> Update(IF IsNone(header) THEN EmptyHeader ELSE header, "EXTNAME", name)]

TableHDU(newtab) == [kind |-> "TABLE", data |-> newtab, header |-> EmptyHeader]

SetHeader(hdu, header) == [hdu EXCEPT !.header = header]

\* Lines 328-331 and 420-423: one plane is written as a 2-D image.
Squeeze(planes) == IF planes = 1 THEN "ctxarr[0]" ELSE "ctxarr"

\* A slip that leaves the table out of the file.
TableExtension_never(newtab) == <<>>

\* Lines 346-347 and 381-382.
TableExtension(newtab) == IF newtab # None THEN <<TableHDU(newtab)>> ELSE <<>>

\* Lines 367-369, 399-401 and 430-432: the cards of the template header that
\* are not reserved and not in the header yet are appended.
AppendUnique(header, tmpl) ==
  IF IsNone(tmpl) THEN header
  ELSE [k \in (DOMAIN header) \cup ((DOMAIN tmpl) \ RESERVED_KEYS) |->
          IF k \in DOMAIN header THEN header[k] ELSE tmpl[k]]

SyncIfWCS(obj, header) ==
  IF ~IsNone(obj.wcs) THEN addWCSKeywords(obj.wcs, header, obj.blot) ELSE header

\* Lines 301-347: the HDUs of the multi-extension file.
CombinedHDUs(l, obj, whtarr, ctxarr) ==
  LET sci    == LET h == ImageHDU("sciarr", l.scihdr, EXTLIST[1])
                IN  SetHeader(h, Update(Update(h.header, "EXTNAME", "SCI"), "EXTVER", 1))
      errhdr == IF ~IsNone(l.errhdr) THEN Update(l.errhdr, "CCDCHIP", "-999") ELSE l.errhdr
      wht    == LET h == ImageHDU(IF whtarr THEN "whtarr" ELSE None, errhdr, EXTLIST[2])
                IN  SetHeader(h, SyncIfWCS(obj,
                      Update(Update(h.header, "EXTVER", 1), "EXTNAME", "WHT")))
      ctxd   == IF Truthy(obj.outcontext) THEN Squeeze(ctxarr) ELSE None
      ctx    == LET h == ImageHDU(ctxd, l.dqhdr, EXTLIST[3])
                IN  SetHeader(h, SyncIfWCS(obj,
                      Update(Update(h.header, "EXTVER", 1), "EXTNAME", "CTX")))
  IN  <<PrimaryHDU(None, l.prihdr), sci, wht, ctx>> \o TableExtension(l.newtab)

\* ctxarr.shape of a context array that is None raises (line 328).
writeFITS_combined ==
  /\ pc = "combined"
  /\ IF Truthy(self.outcontext) /\ args.ctxarr = 0
       THEN /\ Raise("AttributeError")
            /\ UNCHANGED <<fs, fslog>>
       ELSE IF writetoRaises(fs, self.output)
       THEN /\ Raise("IOError")
            /\ UNCHANGED <<fs, fslog>>
       ELSE /\ fs' = writeto(fs, self.output,
                             CombinedHDUs(loc, self, args.whtarr, args.ctxarr))
            /\ fslog' = fslog \o LogWrite(self.output)
            /\ pc' = "done"
            /\ exc' = exc
  /\ UNCHANGED <<plist, args, self, DRIZ_KEYWORDS, loc>>

\* Lines 359-382: the science file.
ScienceHDUs(l, obj) ==
  LET h1 == Update(l.prihdr, "EXTEND", FALSE)
      h2 == AppendUnique(h1, l.scihdr)
      h3 == Delete(Delete(h2, "PCOUNT"), "GCOUNT")
      h4 == Update(h3, "FILENAME", obj.outdata)
  IN  <<PrimaryHDU("sciarr", SyncIfWCS(obj, h4))>> \o TableExtension(l.newtab)

writeFITS_science ==
  /\ pc = "science"
  /\ IF writetoRaises(fs, self.outdata)
       THEN /\ Raise("IOError")
            /\ UNCHANGED <<fs, fslog>>
       ELSE /\ fs' = writeto(fs, self.outdata, ScienceHDUs(loc, self))
            /\ fslog' = fslog \o LogWrite(self.outdata)
            /\ pc' = "wht"
            /\ exc' = exc
  /\ UNCHANGED <<plist, args, self, DRIZ_KEYWORDS, loc>>

\* A slip that writes the weight file whenever it has a name.
WritesWeight_always(obj, whtarr) == Truthy(obj.outweight)

\* Line 387.
WritesWeight(obj, whtarr) == Truthy(obj.outweight) /\ whtarr

\* Line 416.
WritesContext(obj, ctxarr) == Truthy(obj.outcontext) /\ ctxarr # 0

\* Lines 391-410: the weight file.
WeightHDUs(l, obj, whtarr) ==
  LET errhdr == IF ~IsNone(l.errhdr) THEN Update(l.errhdr, "CCDCHIP", "-999") ELSE l.errhdr
      h1 == AppendUnique(l.prihdr, errhdr)
      h2 == Update(h1, "FILENAME", obj.outweight)
      h3 == Update(h2, "CCDCHIP", "-999")
  IN  <<PrimaryHDU(IF whtarr THEN "whtarr" ELSE None, SyncIfWCS(obj, h3))>>

writeFITS_wht ==
  /\ pc = "wht"
  /\ IF ~WritesWeight(self, args.whtarr)
       THEN /\ pc' = "ctx"
            /\ UNCHANGED <<exc, fs, fslog>>
       ELSE IF writetoRaises(fs, self.outweight)
       THEN /\ Raise("IOError")
            /\ UNCHANGED <<fs, fslog>>
       ELSE /\ fs' = writeto(fs, self.outweight, WeightHDUs(loc, self, args.whtarr))
            /\ fslog' = fslog \o LogWrite(self.outweight)
            /\ pc' = "ctx"
            /\ exc' = exc
  /\ UNCHANGED <<plist, args, self, DRIZ_KEYWORDS, loc>>

\* Lines 417-439: the context file.
ContextHDUs(l, obj, ctxarr) ==
  LET h1 == AppendUnique(l.prihdr, l.dqhdr)
      h2 == Update(h1, "FILENAME", obj.outcontext)
  IN  <<PrimaryHDU(Squeeze(ctxarr), SyncIfWCS(obj, h2))>>

writeFITS_ctx ==
  /\ pc = "ctx"
  /\ IF ~WritesContext(self, args.ctxarr)
       THEN /\ pc' = "done"
            /\ UNCHANGED <<exc, fs, fslog>>
       ELSE IF writetoRaises(fs, self.outcontext)
       THEN /\ Raise("IOError")
            /\ UNCHANGED <<fs, fslog>>
       ELSE /\ fs' = writeto(fs, self.outcontext, ContextHDUs(loc, self, args.ctxarr))
            /\ fslog' = fslog \o LogWrite(self.outcontext)
            /\ pc' = "done"
            /\ exc' = exc
  /\ UNCHANGED <<plist, args, self, DRIZ_KEYWORDS, loc>>

\* ------------------------------------------------------------------ inputs

\* A header that holds the WCS keywords `keys`, each with a value that names
\* where it comes from.
WCSHeader(tag, keys) == [k \in keys |-> tag \o ":" \o k]

ScaleCards == [BSCALE |-> "1.0", BZERO |-> "32768"]
SkyCards == [MDRIZSKY |-> "21.5", OBJECT |-> "NGC-1234"]

PlainPri ==
  [ORIGIN |-> "HSTIO", EXPTIME |-> 999, EXPSTART |-> 998, EXPEND |-> 997,
   NEXTEND |-> 6, DRIZCORR |-> "PERFORM"]

PlainSci ==
  DictUpdate(WCSHeader("sci", WCSKeys),
             [EXTNAME |-> "SCI", CCDCHIP |-> "1", NCOMBINE |-> 1, BUNIT |-> "ELECTRONS",
              A_ORDER |-> "4"])

PlainErr == DictUpdate(WCSHeader("sci", WCSKeys), [EXTNAME |-> "ERR"])

PlainDq == DictUpdate(WCSHeader("sci", WCSKeys), [EXTNAME |-> "DQ"])

PlainTemplates ==
  {[pri |-> PlainPri, sci |-> PlainSci, err |-> PlainErr, dq |-> PlainDq, tab |-> t] :
     t \in {None, "TAB"}}

\* Templates that differ in which headers exist and in which of the keywords
\* the cleanup is about each of them carries.
PriHeaders == {PlainPri, DictUpdate(PlainPri, DictUpdate(ScaleCards, SkyCards))}

SciHeaders ==
  { NoneObj,
    PlainSci,
    DictUpdate(PlainSci, DictUpdate(ScaleCards, SkyCards)),
    Delete(PlainSci, "CTYPE1") }

ErrHeaders ==
  { NoneObj,
    PlainErr,
    DictUpdate(WCSHeader("err", WCSKeys), DictUpdate(ScaleCards, SkyCards)),
    DictUpdate(WCSHeader("err", WCSKeys \ {"CTYPE2", "CRVAL1"}), ScaleCards),
    [EXTNAME |-> "ERR"] }

DqHeaders ==
  { NoneObj,
    PlainDq,
    DictUpdate(WCSHeader("dq", WCSKeys \ {"CD1_1", "WCSNAME"}), DictUpdate(ScaleCards, SkyCards)) }

CleanupTemplates ==
  {[pri |-> p, sci |-> s, err |-> e, dq |-> d, tab |-> None] :
     p \in PriHeaders, s \in SciHeaders, e \in ErrHeaders, d \in DqHeaders}

\* The output WCS of the product.
OutputWCS ==
  [ orientat |-> "12.5",
    wcs |-> [ cd    |-> << <<"wcs:CD1_1", "wcs:CD1_2">>, <<"wcs:CD2_1", "wcs:CD2_2">> >>,
              crval |-> <<"wcs:CRVAL1", "wcs:CRVAL2">>,
              crpix |-> <<"wcs:CRPIX1", "wcs:CRPIX2">>,
              name  |-> "wcs:WCSNAME",
              ctype |-> <<"wcs:CTYPE1", "wcs:CTYPE2">> ] ]

Versions == [PyFITS |-> "3.0.8"]

OutputNames == {"final_drz.fits", "product.fits"}

\* What differs from one chip record to the next: its time window, its
\* weighting scale, its exposure time and the name of its input image.
Variant(tw, wt, ex, nm) == [tw |-> tw, wt_scl |-> wt, exptime |-> ex, data |-> nm]

FirstWindow == CHOOSE tw \in TimeWindows : tw.texptime = 100

PlainVariant == Variant(FirstWindow, "exptime", 150, "chip_flt.fits")

\* The lists of 1..MaxChips chip records built from `variants`.
ChipLists(outs, variants, ows, ocs) ==
  UNION { { [i \in 1..n |->
               ChipRecord(i, out, v[i].tw, ow, oc, v[i].wt_scl, v[i].exptime, v[i].data)] :
              out \in outs, v \in [1..n -> variants], ow \in ows, oc \in ocs } :
          n \in 1..MaxChips }

\* The paths a product of these records can go to.
PathsOf(pl) ==
  {pl[1].output, pl[1].outFinal, pl[1].outSci, pl[1].outSingle, pl[1].blotImage}

WeightPathsOf(pl) == {pl[1].outWeight, pl[1].outSWeight} \ {None}

ContextPathsOf(pl) == {pl[1].outContext, pl[1].outSContext} \ {None}

\* The state before the object is built: the caller's records and arguments,
\* and the files on disk.
InitWith(lists, pars, flags, wcss, templates, whts, ctxs, verss, overwrites, blends, disks) ==
  /\ pc = "new"
  /\ exc = None
  /\ plist \in lists
  /\ args \in [ input_pars : pars,
                build      : flags,
                single     : flags,
                blot       : flags,
                wcs        : wcss,
                template   : templates,
                whtarr     : whts,
                ctxarr     : ctxs,
                versions   : verss,
                overwrite  : overwrites,
                blend      : blends ]
  /\ self = NoneObj
  /\ DRIZ_KEYWORDS = DRIZ_KEYWORDS_default
  /\ \E d \in disks :
       fs = [x \in (IF "sci" \in d THEN PathsOf(plist) ELSE {})
                   \cup (IF "wht" \in d THEN WeightPathsOf(plist) ELSE {})
                   \cup (IF "ctx" \in d THEN ContextPathsOf(plist) ELSE {}) |-> OldFile]
  /\ fslog = <<>>
  /\ loc = NoneObj

NoPars == [k \in {} |-> ""]

\* Mode selection: every flag combination over lists of records that differ in
\* their output name and their time windows.
InitModes ==
  InitWith(ChipLists(OutputNames, {Variant(tw, "exptime", 150, "chip_flt.fits") : tw \in TimeWindows},
                     {TRUE}, {TRUE}),
           {NoPars}, BOOLEAN, {OutputWCS},
           {t \in PlainTemplates : t.tab = None}, {TRUE}, {1}, {NoneObj}, {TRUE}, {TRUE},
           {{}})

\* Collision policy: every flag combination, with and without weight and
\* context names, arrays and files on disk.
InitCollisions ==
  InitWith(ChipLists({"final_drz.fits"}, {PlainVariant}, BOOLEAN, BOOLEAN),
           {NoPars}, BOOLEAN, {NoneObj},
           {t \in PlainTemplates : t.tab = None}, BOOLEAN, {0, 1}, {NoneObj}, BOOLEAN, {TRUE},
           SUBSET {"sci", "wht", "ctx"})

\* Header cleanup: templates of every shape, with and without an output WCS.
InitCleanup ==
  InitWith(ChipLists({"final_drz.fits"}, {PlainVariant}, {TRUE}, {TRUE}),
           {NoPars}, BOOLEAN, {NoneObj, OutputWCS},
           CleanupTemplates, {TRUE}, {1}, {NoneObj}, {TRUE}, {TRUE},
           {{}})

\* File layout: with and without the table, arrays and context planes.
InitLayout ==
  InitWith(ChipLists({"final_drz.fits"}, {PlainVariant}, {TRUE}, BOOLEAN),
           {NoPars}, BOOLEAN, {NoneObj, OutputWCS},
           PlainTemplates, BOOLEAN, {0, 1, 2}, {NoneObj}, {TRUE}, BOOLEAN,
           {{}})

\* Provenance: records that differ in weighting scale, exposure time and names.
InitProvenance ==
  InitWith(ChipLists({"final_drz.fits"},
                     {Variant(FirstWindow, "exptime", 150, "chip_flt.fits"),
                      Variant(FirstWindow, "expsq", 150, LongName),
                      Variant(FirstWindow, "0.5", 20, "chip_flt.fits")},
                     {TRUE}, BOOLEAN),
           {NoPars, [wt_scl |-> "expsq", kernel |-> "turbo"]}, BOOLEAN, {NoneObj},
           {t \in PlainTemplates : t.tab = None}, {TRUE}, {1}, {NoneObj, Versions}, {TRUE}, {TRUE},
           {{}})

Init == InitModes \/ InitCollisions \/ InitLayout

Next ==
  \/ OutputImage_init
  \/ set_bunit
  \/ set_units
  \/ writeFITS_output
  \/ writeFITS_weight
  \/ writeFITS_context
  \/ writeFITS_templates
  \/ writeFITS_headers
  \/ writeFITS_combined
  \/ writeFITS_science
  \/ writeFITS_wht
  \/ writeFITS_ctx

Spec == Init /\ [][Next]_vars

SpecModes == InitModes /\ [][Next]_vars

SpecCollisions == InitCollisions /\ [][Next]_vars

SpecCleanup == InitCleanup /\ [][Next]_vars

SpecLayout == InitLayout /\ [][Next]_vars

SpecProvenance == InitProvenance /\ [][Next]_vars

\* ------------------------------------------------------------- calc_pixmap

\* numpy arrays are nested sequences; the indices of an array are 1-based here
\* and 0-based in the code, the values are the code's.

\* np.indices((n1, n2)): result[c][i][j] is the c-th coordinate of entry (i, j)
indices(n1, n2) ==
  [c \in 1..2 |-> [i \in 1..n1 |-> [j \in 1..n2 |-> IF c = 1 THEN i - 1 ELSE j - 1]]]

\* a.transpose() of a 3-d array: the axes in reverse order
transpose(a) ==
  [k \in 1..Len(a[1][1]) |-> [j \in 1..Len(a[1]) |-> [i \in 1..Len(a) |-> a[i][j][k]]]]

\* np.ones(2)
one == <<1, 1>>

\* a + v, the vector v broadcast along the last axis
Add(a, v) ==
  [j \in 1..Len(a) |-> [i \in 1..Len(a[j]) |-> [c \in 1..Len(v) |-> a[j][i][c] + v[c]]]]

\* The elements of a 3-d array in C order.
ravel3(a) ==
  LET d2 == Len(a[1])
      d3 == Len(a[1][1])
  IN  [e \in 1..(Len(a) * d2 * d3) |->
         a[((e - 1) \div (d2 * d3)) + 1][(((e - 1) \div d3) % d2) + 1][((e - 1) % d3) + 1]]

\* The elements of a 2-d array in C order.
ravel2(a) ==
  LET d2 == Len(a[1])
  IN  [e \in 1..(Len(a) * d2) |-> a[((e - 1) \div d2) + 1][((e - 1) % d2) + 1]]

\* reshape to (rows, cols) and to (d1, d2, d3) of the elements in C order
reshape2(flat, rows, cols) ==
  [r \in 1..rows |-> [c \in 1..cols |-> flat[(r - 1) * cols + c]]]

reshape3(flat, d1, d2, d3) ==
  [i \in 1..d1 |-> [j \in 1..d2 |-> [c \in 1..d3 |-> flat[((i - 1) * d2 + (j - 1)) * d3 + c]]]]

\* A WCS model on integer coordinates.  Its core transform is a translation by
\* crval after an optional quarter turn; its SIP polynomial, when it has one, is
\* a shear along x; its lookup-table distortion (cpdis) shifts y.  Every part
\* has an exact inverse (the iteration of all_world2pix is taken to converge).
sip_forward(w, p) == IF IsNone(w.sip) THEN p ELSE <<p[1] + w.sip.shear * p[2], p[2]>>

sip_inverse(w, p) == IF IsNone(w.sip) THEN p ELSE <<p[1] - w.sip.shear * p[2], p[2]>>

cpdis_forward(w, p) == <<p[1], p[2] + w.cpdis>>

cpdis_inverse(w, p) == <<p[1], p[2] - w.cpdis>>

core_forward(w, p) ==
  IF w.rot THEN <<w.crval[1] - p[2], w.crval[2] + p[1]>>
  ELSE <<w.crval[1] + p[1], w.crval[2] + p[2]>>

core_inverse(w, q) ==
  IF w.rot THEN <<q[2] - w.crval[2], w.crval[1] - q[1]>>
  ELSE <<q[1] - w.crval[1], q[2] - w.crval[2]>>

\* The coordinates of a point given with `origin` in the 1-based FITS convention.
ToFits(p, origin) == <<p[1] + (1 - origin), p[2] + (1 - origin)>>

FromFits(p, origin) == <<p[1] - (1 - origin), p[2] - (1 - origin)>>

\* WCS.all_pix2world(points, origin): the distortions, then the core transform
all_pix2world(w, points, origin) ==
  [r \in 1..Len(points) |->
     core_forward(w, cpdis_forward(w, sip_forward(w, ToFits(points[r], origin))))]

\* WCS.wcs_world2pix(points, origin): the inverse of the core transform alone
wcs_world2pix(w, points, origin) ==
  [r \in 1..Len(points) |-> FromFits(core_inverse(w, points[r]), origin)]

\* WCS.all_world2pix(points, origin): the inverse of all_pix2world
all_world2pix(w, points, origin) ==
  [r \in 1..Len(points) |->
     FromFits(sip_inverse(w, cpdis_inverse(w, core_inverse(w, points[r]))), origin)]

\* A slip that returns the 1-based coordinates.
ShiftBack_none(pixmap) == pixmap

\* Line 31: pixmap - one
ShiftBack(pixmap) == Add(pixmap, <<0 - one[1], 0 - one[2]>>)

calc_pixmap(first_wcs, second_wcs) ==
  LET first_naxis1 == first_wcs.naxis1
      first_naxis2 == first_wcs.naxis2
      idxmap0  == indices(first_naxis1, first_naxis2)
      idxmap1  == Add(transpose(idxmap0), one)
      idxmap   == reshape2(ravel3(idxmap1), first_naxis2 * first_naxis1, 2)
      worldmap == all_pix2world(first_wcs, idxmap, 1)
      pixmap0  == IF IsNone(second_wcs.sip)
                    THEN wcs_world2pix(second_wcs, worldmap, 1)
                    ELSE all_world2pix(second_wcs, worldmap, 1)
      pixmap   == reshape3(ravel2(pixmap0), first_naxis2, first_naxis1, 2)
  IN  ShiftBack(pixmap)

\* The WCS models: every extent up to MaxAxis, with and without each distortion.
WCSModels ==
  { [naxis1 |-> n1, naxis2 |-> n2, sip |-> s, cpdis |-> d, crval |-> <<10, 20>>, rot |-> r] :
      n1 \in 1..MaxAxis, n2 \in 1..MaxAxis,
      s \in {NoneObj, [a_order |-> 2, shear |-> 1]}, d \in {0, 1}, r \in BOOLEAN }

\* The WCS models of another image.
OtherWCSModels ==
  { [naxis1 |-> 2, naxis2 |-> 2, sip |-> NoneObj, cpdis |-> 0, crval |-> <<11, 19>>,
     rot |-> FALSE],
    [naxis1 |-> 3, naxis2 |-> 1, sip |-> [a_order |-> 2, shear |-> 2], cpdis |-> 0,
     crval |-> <<10, 20>>, rot |-> TRUE] }

PixmapArgs ==
  { [first_wcs |-> f, second_wcs |-> s] : f \in WCSModels, s \in WCSModels \cup OtherWCSModels }

\* The caller holds two WCS models, the same or not.
InitPixmap ==
  /\ pc = "calc_pixmap"
  /\ exc = None
  /\ plist = <<>>
  /\ args \in {a \in PixmapArgs : a.second_wcs = a.first_wcs \/ a.second_wcs \in OtherWCSModels}
  /\ self = NoneObj
  /\ DRIZ_KEYWORDS = DRIZ_KEYWORDS_default
  /\ fs = [x \in {} |-> OldFile]
  /\ fslog = <<>>
  /\ loc = NoneObj

calc_pixmap_call ==
  /\ pc = "calc_pixmap"
  /\ loc' = [pixmap |-> calc_pixmap(args.first_wcs, args.second_wcs)]
  /\ pc' = "returned"
  /\ UNCHANGED <<exc, plist, args, self, DRIZ_KEYWORDS, fs, fslog>>

\* The caller drops the map and asks for the map of the two images the other
\* way round.
calc_pixmap_again ==
  /\ pc = "returned"
  /\ args' = [first_wcs |-> args.second_wcs, second_wcs |-> args.first_wcs]
  /\ loc' = NoneObj
  /\ pc' = "calc_pixmap"
  /\ UNCHANGED <<exc, plist, self, DRIZ_KEYWORDS, fs, fslog>>

NextPixmap ==
  \/ calc_pixmap_call
  \/ calc_pixmap_again

SpecPixmap == InitPixmap /\ [][NextPixmap]_vars

\* ---------------------------------------------------------- writeSingleFITS

\* A header as pyfits keeps it: its cards in order (header.ascard).
Card(k, v) == [key |-> k, value |-> v]

\* The header as a function of its keywords.
HeaderOf(cards) ==
  [k \in {cards[i].key : i \in 1..Len(cards)} |->
     cards[CHOOSE i \in 1..Len(cards) : cards[i].key = k].value]

RECURSIVE SynthIndex(_, _)
\* Lines 602-605: the number of cards before the first INHERIT or EXPNAME card.
SynthIndex(cards, indx) ==
  IF indx >= Len(cards) THEN indx
  ELSE IF cards[indx + 1].key \notin {"INHERIT", "EXPNAME"} THEN SynthIndex(cards, indx + 1)
  ELSE indx

\* Lines 600-609: the cards from index indx on are appended to the new science
\* header and deleted from the primary header.
SynthesizeSci(pricards) ==
  LET indx == SynthIndex(pricards, 0)
  IN  [ pri |-> SubSeq(pricards, 1, indx),
        sci |-> SubSeq(pricards, indx + 1, Len(pricards)) ]

\* wcs.wcs2header(sip2hdr): the cards that describe the WCS, with those of the
\* SIP polynomial when asked for.
wcs2header(wcs, sip2hdr) ==
  <<Card("CRPIX1", wcs.wcs.crpix[1]), Card("CRPIX2", wcs.wcs.crpix[2]),
    Card("CRVAL1", wcs.wcs.crval[1]), Card("CRVAL2", wcs.wcs.crval[2]),
    Card("CTYPE1", wcs.wcs.ctype[1]), Card("CTYPE2", wcs.wcs.ctype[2]),
    Card("CD1_1", wcs.wcs.cd[1][1]), Card("CD1_2", wcs.wcs.cd[1][2]),
    Card("CD2_1", wcs.wcs.cd[2][1]), Card("CD2_2", wcs.wcs.cd[2][2])>>
  \o (IF sip2hdr THEN <<Card("A_ORDER", "2")>> ELSE <<>>)

\* Lines 587-633: the two headers of the file, or the exception of getTemplates.
SingleHeaders(wcs, outname, template) ==
  LET siphdr == ~IsNone(wcs.sip) /\ "a_order" \in DOMAIN wcs.sip
      wcshdr == HeaderOf(wcs2header(wcs, siphdr))
      t      == IF IsNone(template) THEN NoneObj ELSE getTemplates(template, TRUE)
      e      == IF IsNone(template) THEN None ELSE t.exc
      synth  == IF IsNone(template) THEN NoneObj ELSE SynthesizeSci(template.cards)
      prihdr == IF IsNone(template)
                  THEN Update(Update(EmptyHeader, "EXTEND", TRUE), "FILENAME", outname)
                ELSE IF IsNone(t.scihdr) THEN HeaderOf(synth.pri)
                ELSE t.prihdr
      scihdr == IF IsNone(template) THEN EmptyHeader
                ELSE IF IsNone(t.scihdr) THEN HeaderOf(synth.sci)
                ELSE t.scihdr
      sci1   == Update(Update(DictUpdate(scihdr, wcshdr), "EXTNAME", "SCI"), "EXTVER", 1)
  IN  [exc |-> e, prihdr |-> prihdr, scihdr |-> DictUpdate(sci1, wcshdr)]

\* writeSingleFITS(data, wcs, output, template, blot, clobber) for an output
\* name without an extension specification.
writeSingleFITS_call ==
  /\ pc = "writeSingleFITS"
  /\ LET c == CollideOutput(fs, args.output, args.clobber)
         h == SingleHeaders(args.wcs, args.output, args.template)
         fs1 == IF c.remove THEN removeFile(fs, args.output) ELSE fs
         log1 == IF c.remove THEN LogRemove(fs, args.output) ELSE <<>>
     IN  IF c.raise
           THEN /\ Raise("IOError")
                /\ UNCHANGED <<fs, fslog>>
         ELSE IF h.exc # None
           THEN /\ Raise(h.exc)
                /\ fs' = fs1
                /\ fslog' = fslog \o log1
         ELSE /\ fs' = writeto(fs1, args.output,
                               <<PrimaryHDU(None, h.prihdr),
                                 [kind |-> "IMAGE", data |-> args.data, header |-> h.scihdr]>>)
              /\ fslog' = fslog \o log1 \o LogWrite(args.output)
              /\ pc' = "single_done"
              /\ exc' = exc
  /\ UNCHANGED <<plist, args, self, DRIZ_KEYWORDS, loc>>

\* Primary headers of images that are not multi-extension files: the keywords
\* of the image follow the INHERIT or EXPNAME card, when there is one.
TemplateCards ==
  { <<Card("ORIGIN", "HSTIO"), Card("DRIZCORR", "PERFORM"), Card("INHERIT", "T"),
      Card("EXPNAME", "j8c0d1bwq"), Card("CCDCHIP", "1"), Card("MDRIZSKY", "21.5"),
      Card("PHOTMODE", "ACS WFC1")>>,
    <<Card("ORIGIN", "HSTIO"), Card("EXPNAME", "j8c0d1bwq"), Card("PHOTMODE", "ACS WFC1")>>,
    <<Card("ORIGIN", "HSTIO"), Card("DRIZCORR", "PERFORM"), Card("PHOTMODE", "ACS WFC1")>> }

\* Templates with and without a science header.
SynthTemplates ==
  { [cards |-> c, pri |-> HeaderOf(c), sci |-> s, err |-> x[1], dq |-> x[2], tab |-> None] :
      c \in TemplateCards, s \in {NoneObj, PlainSci},
      x \in {<<NoneObj, NoneObj>>, <<PlainErr, PlainDq>>} }

SingleWCS ==
  { [orientat |-> OutputWCS.orientat, wcs |-> OutputWCS.wcs, sip |-> s] :
      s \in {NoneObj, [a_order |-> 2]} }

InitSingle ==
  /\ pc = "writeSingleFITS"
  /\ exc = None
  /\ plist = <<>>
  /\ args \in [ data     : {"data"},
                wcs      : SingleWCS,
                output   : {"single_sci.fits"},
                template : SynthTemplates \cup {NoneObj},
                blot     : BOOLEAN,
                clobber  : BOOLEAN ]
  /\ self = NoneObj
  /\ DRIZ_KEYWORDS = DRIZ_KEYWORDS_default
  /\ \E old \in BOOLEAN :
       fs = [x \in (IF old THEN {args.output} ELSE {}) |-> OldFile]
  /\ fslog = <<>>
  /\ loc = NoneObj

\* Templates without a science header, given to writeFITS and to writeSingleFITS.
InitSynthesis ==
  \/ InitWith(ChipLists({"final_drz.fits"}, {PlainVariant}, {TRUE}, {TRUE}),
              {NoPars}, BOOLEAN, {NoneObj, OutputWCS},
              SynthTemplates, {TRUE}, {1}, {NoneObj}, {TRUE}, {TRUE},
              {{}})
  \/ InitSingle

NextWrite ==
  \/ Next
  \/ writeSingleFITS_call

SpecSynthesis == InitSynthesis /\ [][NextWrite]_vars

\* ------------------------------------------------------------------ claims

\* The files the call is to produce (the combined file, or the split science,
\* weight and context files that have a name).
Targets ==
  {self.output} \cup
  (IF self.build THEN {} ELSE {p \in {self.outweight, self.outcontext} : Truthy(p)})

\* The path writeFITS writes the science array to (lines 350 and 384).
SciencePath == IF self.build THEN self.output ELSE self.outdata

\* The new files that hold the science array.
ScienceProducts ==
  {p \in DOMAIN fs : ~fs[p].old /\ \E i \in 1..Len(fs[p].hdus) : fs[p].hdus[i].data = "sciarr"}

Removed(p) == \E i \in 1..Len(fslog) : fslog[i] = [op |-> "remove", path |-> p]

\* The file was on disk when the call began: it still is, or the call removed it.
ExistedBefore(p) == (findFile(fs, p) /\ fs[p].old) \/ Removed(p)

\* The table of section 4.2 as the claim states it.
StatedOutput ==
  IF args.blot THEN plist[1].blotImage
  ELSE IF args.single THEN plist[1].outSingle
  ELSE IF args.build THEN plist[1].outFinal
  ELSE plist[1].outSci

\* C1 as stated: for every flag combination the path resolved at construction,
\* and written to by writeFITS, is blotImage when blot, else outSingle when
\* single, else outFinal when build and outSci when not.
C1_AsStated ==
  /\ pc # "new" => self.output = StatedOutput
  /\ pc = "done" => ScienceProducts = {StatedOutput}

\* C1 amended: the same table, except that a combined, non-single, non-blot
\* product goes to record[0]['output'] (outFinal is kept as self.outdata only).
C1_OutputPath ==
  LET path == IF args.blot THEN plist[1].blotImage
              ELSE IF args.single THEN plist[1].outSingle
              ELSE IF args.build THEN plist[1].output
              ELSE plist[1].outSci
  IN  /\ pc # "new" => self.output = path
      /\ pc = "done" => ScienceProducts = {path}

C1_Witness ==
  /\ pc = "done"
  /\ args.build /\ ~args.single /\ ~args.blot
  /\ plist[1].output # plist[1].outFinal
  /\ ScienceProducts = {plist[1].output}

\* The primary header of the file the science array went to.
WrittenPrimary == fs[SciencePath].hdus[1].header

\* C2: the exposure-time window depends on the single flag alone: texptime and
\* expstart are record[0]'s, expend is the last record's unless single, when it
\* is record[0]'s; the primary header written reports that window.
C2_TimeWindow ==
  /\ pc # "new" =>
       /\ self.texptime = plist[1].texptime
       /\ self.expstart = plist[1].texpstart
       /\ self.expend = IF args.single THEN plist[1].texpend ELSE plist[Len(plist)].texpend
  /\ (pc = "done" /\ plist[1].texptime # 0) =>
       /\ WrittenPrimary["EXPTIME"] = plist[1].texptime
       /\ WrittenPrimary["EXPSTART"] = plist[1].texpstart
       /\ WrittenPrimary["EXPEND"] =
            IF args.single THEN plist[1].texpend ELSE plist[Len(plist)].texpend

C2_Witness ==
  /\ pc = "done"
  /\ args.build /\ ~args.single /\ ~args.blot
  /\ Len(plist) = 2
  /\ plist[1].texptime = 100 /\ plist[1].texpstart = 0 /\ plist[1].texpend = 100
  /\ plist[2].texptime = 200 /\ plist[2].texpstart = 100 /\ plist[2].texpend = 300
  /\ WrittenPrimary["EXPTIME"] = 100
  /\ WrittenPrimary["EXPSTART"] = 0
  /\ WrittenPrimary["EXPEND"] = 300

\* A target of the active mode was on disk when the call began.
TargetExisted == \E p \in Targets : ExistedBefore(p)

\* C3: a call with overwrite=false that finds a target of the active mode on
\* disk deletes nothing and writes nothing in any of its steps, gets no further
\* than the collision checks, and ends with the product-exists error.
C3_NoDeleteNoWrite ==
  [][ (pc # "new" /\ ~args.overwrite /\ TargetExisted) =>
        /\ fs' = fs
        /\ fslog' = fslog
        /\ pc' \in {"constructed", "weight", "context", "raised"}
        /\ (pc' = "raised" => exc' = "IOError") ]_vars

C3_Witness ==
  /\ pc = "raised" /\ exc = "IOError"
  /\ ~args.overwrite
  /\ ~self.build
  /\ ~findFile(fs, self.output)
  /\ Truthy(self.outweight) /\ findFile(fs, self.outweight)
  /\ fslog = <<>>
  /\ \A p \in DOMAIN fs : fs[p].old

\* C4 as stated: with overwrite=false the call ends with the product-exists
\* error if and only if a target of the active mode is on disk.
C4_AsStated ==
  (pc \in {"raised", "done"} /\ ~args.overwrite) =>
    ((pc = "raised" /\ exc = "IOError") <=> TargetExisted)

\* No file is written before the last deletion.
RemovalsFirst ==
  \A i, j \in 1..Len(fslog) :
    (fslog[i].op = "remove" /\ fslog[j].op = "write") => i < j

\* C5 as stated: after a call with overwrite=true that returns, every target
\* that was on disk was removed before anything was written and is a new file
\* now, whichever of the weight and context arrays were supplied.
C5_AsStated ==
  /\ RemovalsFirst
  /\ (pc = "done" /\ args.overwrite) =>
       \A p \in Targets :
         ExistedBefore(p) => (Removed(p) /\ findFile(fs, p) /\ ~fs[p].old)

\* The call writes the file at target p.
Emits(p) ==
  \/ p = SciencePath
  \/ (p = self.outweight /\ args.whtarr)
  \/ (p = self.outcontext /\ args.ctxarr # 0)

\* C5 amended: every target that was on disk was removed before anything was
\* written; a new file is at the path of the combined or science file, and of
\* the weight (context) file when its array was supplied; the weight (context)
\* file whose array is absent is removed and not replaced.
C5_RemovedThenWritten ==
  /\ RemovalsFirst
  /\ (pc = "done" /\ args.overwrite) =>
       \A p \in Targets :
         ExistedBefore(p) =>
           /\ Removed(p)
           /\ IF Emits(p) THEN findFile(fs, p) /\ ~fs[p].old ELSE ~findFile(fs, p)

C5_Witness ==
  /\ pc = "done" /\ args.overwrite
  /\ ~self.build
  /\ Removed(self.output) /\ findFile(fs, self.output) /\ ~fs[self.output].old
  /\ Truthy(self.outweight) /\ Removed(self.outweight)
  /\ ~args.whtarr /\ ~findFile(fs, self.outweight)
  /\ Truthy(self.outcontext) /\ Removed(self.outcontext)
  /\ findFile(fs, self.outcontext) /\ ~fs[self.outcontext].old

\* The keywords the cleanup is to leave in no header.
CleanedKeys == {"BSCALE", "BZERO", "MDRIZSKY", "OBJECT"}

\* C6 as stated: after writeFITS completes no header of any HDU of any file it
\* wrote contains BSCALE, BZERO, MDRIZSKY or OBJECT, whatever the template's
\* primary, science, error and data-quality headers carried.
C6_AsStated ==
  pc = "done" =>
    \A p \in DOMAIN fs :
      ~fs[p].old =>
        \A i \in 1..Len(fs[p].hdus) : (DOMAIN fs[p].hdus[i].header) \cap CleanedKeys = {}

\* The science, weight and context headers as written: the extensions of the
\* combined file, or the primary headers of the split files.
WrittenSci ==
  IF self.build THEN fs[self.output].hdus[2].header ELSE fs[self.outdata].hdus[1].header

WrittenWht ==
  IF self.build THEN fs[self.output].hdus[3].header ELSE fs[self.outweight].hdus[1].header

WrittenCtx ==
  IF self.build THEN fs[self.output].hdus[4].header ELSE fs[self.outcontext].hdus[1].header

\* The call returned and its template had science, error and data-quality headers.
DoneWithDataHeaders ==
  /\ pc = "done"
  /\ ~IsNone(args.template.sci)
  /\ ~IsNone(args.template.err)
  /\ ~IsNone(args.template.dq)

Agree(h, g, k) == (k \in DOMAIN h <=> k \in DOMAIN g) /\ (k \in DOMAIN h => h[k] = g[k])

\* C7 as stated: after writeFITS completes the science, weight and context
\* headers carry the same value for every WCS positional keyword, whatever the
\* error and data-quality headers of the template lacked or held, with or
\* without an output WCS.
C7_AsStated ==
  DoneWithDataHeaders =>
    \A k \in WCSKeys : Agree(WrittenSci, WrittenWht, k) /\ Agree(WrittenSci, WrittenCtx, k)

\* The keywords addWCSKeywords sets in every header it is given.
WCSStamped ==
  {"CD1_1", "CD1_2", "CD2_1", "CD2_2", "CRVAL1", "CRVAL2", "CRPIX1", "CRPIX2", "WCSNAME"}

\* The value the output WCS holds for a keyword it stamps.
WCSValue(wcs, k) ==
  CASE k = "CD1_1"   -> wcs.wcs.cd[1][1]
    [] k = "CD1_2"   -> wcs.wcs.cd[1][2]
    [] k = "CD2_1"   -> wcs.wcs.cd[2][1]
    [] k = "CD2_2"   -> wcs.wcs.cd[2][2]
    [] k = "CRVAL1"  -> wcs.wcs.crval[1]
    [] k = "CRVAL2"  -> wcs.wcs.crval[2]
    [] k = "CRPIX1"  -> wcs.wcs.crpix[1]
    [] k = "CRPIX2"  -> wcs.wcs.crpix[2]
    [] k = "WCSNAME" -> wcs.wcs.name

\* What the written header `out` is to hold under k when the template header
\* it was made from is `tmpl`: the template science header's value when tmpl
\* lacked k, and tmpl's own value when it had one.
Propagated(out, tmpl, k) ==
  /\ k \in DOMAIN out
  /\ out[k] = IF k \in DOMAIN tmpl THEN tmpl[k] ELSE args.template.sci[k]

\* C7 amended: with an output WCS the nine keywords it stamps (CD1_1..CD2_2,
\* CRVAL1/2, CRPIX1/2, WCSNAME) have the WCS's value in all three headers; every
\* other WCS positional keyword (all eleven without an output WCS) that the
\* error or data-quality header of the template lacked has the template science
\* header's value in the weight or context header, and one the header already
\* had keeps its own value, which may differ from the science header's.
C7_Propagated ==
  DoneWithDataHeaders =>
    \A k \in WCSKeys :
      IF ~IsNone(self.wcs) /\ k \in WCSStamped
        THEN /\ k \in DOMAIN WrittenSci /\ WrittenSci[k] = WCSValue(self.wcs, k)
             /\ k \in DOMAIN WrittenWht /\ WrittenWht[k] = WCSValue(self.wcs, k)
             /\ k \in DOMAIN WrittenCtx /\ WrittenCtx[k] = WCSValue(self.wcs, k)
        ELSE /\ Propagated(WrittenWht, args.template.err, k)
             /\ Propagated(WrittenCtx, args.template.dq, k)

C7_Witness ==
  /\ DoneWithDataHeaders
  /\ IsNone(self.wcs)
  /\ ~self.build
  /\ "CRVAL1" \notin DOMAIN args.template.err
  /\ "CD1_1" \in DOMAIN args.template.err
  /\ "CD1_1" \notin DOMAIN args.template.dq
  /\ WrittenWht["CRVAL1"] = "sci:CRVAL1"
  /\ WrittenWht["CD1_1"] = "err:CD1_1"
  /\ WrittenCtx["CD1_1"] = "sci:CD1_1"
  /\ WrittenSci["CD1_1"] = "sci:CD1_1"

\* The template provider returned a table of combined keyword values.
TableReturned ==
  getTemplates(args.template, IF self.single THEN FALSE ELSE args.blend).newtab # None

\* The HDU is an image extension with this name, version 1.
IsExtension(hdu, name) ==
  /\ hdu.kind = "IMAGE"
  /\ HasKey(hdu.header, "EXTNAME") /\ hdu.header["EXTNAME"] = name
  /\ HasKey(hdu.header, "EXTVER") /\ hdu.header["EXTVER"] = 1

\* C8: in combined-file mode the file written is the primary HDU, then the
\* extensions SCI, WHT and CTX in that order, each with EXTVER 1, then the table
\* of combined keyword values if and only if the template provider returned
\* one; NEXTEND of the primary header is 3 (combined) or 0 (split), plus 1 when
\* the table is present.
C8_Layout ==
  pc = "done" =>
    /\ HasKey(WrittenPrimary, "NEXTEND")
    /\ WrittenPrimary["NEXTEND"] =
         (IF self.build THEN 3 ELSE 0) + (IF TableReturned THEN 1 ELSE 0)
    /\ self.build =>
         LET hdus == fs[self.output].hdus
         IN  /\ Len(hdus) = IF TableReturned THEN 5 ELSE 4
             /\ hdus[1].kind = "PRIMARY"
             /\ IsExtension(hdus[2], "SCI")
             /\ IsExtension(hdus[3], "WHT")
             /\ IsExtension(hdus[4], "CTX")
             /\ TableReturned => hdus[5].kind = "TABLE"

C8_Witness ==
  /\ pc = "done"
  /\ self.build
  /\ args.blend /\ ~self.single /\ args.template.tab = "TAB"
  /\ Len(fs[self.output].hdus) = 5
  /\ fs[self.output].hdus[5] = TableHDU("TAB")
  /\ fs[self.output].hdus[4].header["EXTNAME"] = "CTX"
  /\ WrittenPrimary["NEXTEND"] = 4

\* The provenance keywords of a header: 'D', the digits of a chip number, a code.
ProvenanceKeys(h) ==
  {k \in DOMAIN h : Len(k) > 2 /\ SubSeq(k, 1, 1) = "D"
                      /\ SubSeq(k, 2, 2) \in {"0", "1", "2", "3", "4", "5", "6", "7", "8", "9"}}

\* The prefixes of the first chip numbers, written out.
ExpectedPrefix == <<"D001", "D002", "D003", "D004">>

ExpectedCodes ==
  {"VER", "GEOM", "DATA", "DEXP", "OUDA", "OUWE", "OUCO", "MASK", "WTSC",
   "KERN", "PIXF", "COEF", "OUUN", "FVAL", "WKEY", "SCAL", "ISCL"}

\* The leading n characters of a name, the whole name when it is no longer.
Leading(s, n) == IF Len(s) > n THEN SubSeq(s, 1, n) ELSE s

\* The weighting factor of chip record i as the weighting mode resolves it.
ExpectedWeight(i) ==
  CASE plist[i].wt_scl = "exptime" -> plist[i].exptime
    [] plist[i].wt_scl = "expsq"   -> plist[i].exptime * plist[i].exptime
    [] OTHER                       -> plist[i].wt_scl

\* The value of chip record i that goes under a code.
ExpectedValue(i, code) ==
  CASE code = "VER"  -> Leading(plist[i].driz_version, 44)
    [] code = "GEOM" -> "wcs"
    [] code = "DATA" -> Leading(plist[i].data, 64)
    [] code = "DEXP" -> plist[i].exptime
    [] code = "OUDA" -> Leading(plist[i].outFinal, 64)
    [] code = "OUWE" -> Leading(plist[i].outWeight, 64)
    [] code = "OUCO" -> IF plist[i].outContext = None THEN ""
                        ELSE Leading(plist[i].outContext, 64)
    [] code = "MASK" -> IF self.single THEN Leading(plist[i].singleDrizMask, 64)
                        ELSE Leading(plist[i].finalMask, 64)
    [] code = "WTSC" -> ExpectedWeight(i)
    [] code = "KERN" -> plist[i].kernel
    [] code = "PIXF" -> plist[i].pixfrac
    [] code = "COEF" -> "SIP"
    [] code = "OUUN" -> self.units
    [] code = "FVAL" -> IF plist[i].fillval = None THEN "INDEF" ELSE plist[i].fillval
    [] code = "WKEY" -> plist[i].driz_wcskey
    [] code = "SCAL" -> plist[i].scale
    [] code = "ISCL" -> plist[i].idcscale

\* C9: when writeFITS runs with blot=false on n chip records the provenance
\* keywords of the primary header written are exactly 'D' + the three-digit
\* chip number i + code, for i in 1..n and each of the 17 codes, and the values
\* under prefix i are those of chip record i; with blot=true there is none.
C9_ProvenanceKeys ==
  pc = "done" =>
    IF self.blot
      THEN ProvenanceKeys(WrittenPrimary) = {}
      ELSE /\ ProvenanceKeys(WrittenPrimary) =
                {ExpectedPrefix[i] \o code : i \in 1..Len(plist), code \in ExpectedCodes}
           /\ \A i \in 1..Len(plist) : \A code \in ExpectedCodes :
                WrittenPrimary[ExpectedPrefix[i] \o code] = ExpectedValue(i, code)

C9_Witness ==
  /\ pc = "done"
  /\ ~self.blot
  /\ Len(plist) = 2
  /\ plist[1].data = "chip_flt.fits" /\ plist[2].data = LongName
  /\ WrittenPrimary["D001DATA"] = "chip_flt.fits"
  /\ WrittenPrimary["D002DATA"] = SubSeq(LongName, 1, 64)
  /\ WrittenPrimary["D001ISCL"] = "0.041"
  /\ WrittenPrimary["D002ISCL"] = "0.042"
  /\ WrittenPrimary["D001FVAL"] = "INDEF"
  /\ WrittenPrimary["D002FVAL"] = "0.0"

\* C10: for every chip the WTSC value written is the chip's exposure time when
\* wt_scl is 'exptime', its square when wt_scl is 'expsq', and the configured
\* wt_scl itself otherwise.
C10_WeightScale ==
  (pc = "done" /\ ~self.blot) =>
    \A i \in 1..Len(plist) :
      LET key == ExpectedPrefix[i] \o "WTSC"
      IN  /\ HasKey(WrittenPrimary, key)
          /\ (plist[i].wt_scl = "exptime" => WrittenPrimary[key] = plist[i].exptime)
          /\ (plist[i].wt_scl = "expsq" =>
                WrittenPrimary[key] = plist[i].exptime * plist[i].exptime)
          /\ (plist[i].wt_scl \notin {"exptime", "expsq"} =>
                WrittenPrimary[key] = plist[i].wt_scl)

C10_Witness ==
  /\ pc = "done"
  /\ ~self.blot
  /\ Len(plist) = 2
  /\ plist[1].wt_scl = "expsq" /\ plist[1].exptime = 150
  /\ plist[2].wt_scl = "0.5" /\ plist[2].exptime = 20
  /\ WrittenPrimary["D001WTSC"] = 22500
  /\ WrittenPrimary["D002WTSC"] = "0.5"

\* The forward transform of the source image and the inverse transform of the
\* target image, on one point in 1-based coordinates.
source_forward(w, p) == all_pix2world(w, <<p>>, 1)[1]

target_inverse(w, q) ==
  IF IsNone(w.sip) THEN wcs_world2pix(w, <<q>>, 1)[1] ELSE all_world2pix(w, <<q>>, 1)[1]

\* The inverse transform of w undoes its forward transform on w's extent.
Undoes(w) ==
  \A x \in 1..w.naxis1, y \in 1..w.naxis2 :
    target_inverse(w, source_forward(w, <<x, y>>)) = <<x, y>>

\* The map has shape (height, width, 2) of the first image.
HasShape(pixmap, w) ==
  /\ Len(pixmap) = w.naxis2
  /\ \A j \in 1..w.naxis2 :
       /\ Len(pixmap[j]) = w.naxis1
       /\ \A i \in 1..w.naxis1 : Len(pixmap[j][i]) = 2

\* C11: calc_pixmap leaves both WCS models as they were and returns an array
\* of shape (height, width, 2) of the first image whose entry [y][x] is
\* target_inverse(source_forward((x+1, y+1))) - (1, 1), computed anew from the
\* arguments of the call; for calc_pixmap(W, W) with a W whose inverse transform
\* undoes its forward transform, entry [y][x] is (x, y).
C11_PixelMap ==
  [][ pc = "calc_pixmap" =>
        LET f == args.first_wcs
            s == args.second_wcs
            m == loc'.pixmap
        IN  /\ args' = args
            /\ pc' = "returned"
            /\ HasShape(m, f)
            /\ \A x \in 0..(f.naxis1 - 1), y \in 0..(f.naxis2 - 1) :
                 LET q == target_inverse(s, source_forward(f, <<x + 1, y + 1>>))
                 IN  m[y + 1][x + 1] = <<q[1] - 1, q[2] - 1>>
            /\ (s = f /\ Undoes(f)) =>
                 \A x \in 0..(f.naxis1 - 1), y \in 0..(f.naxis2 - 1) :
                   m[y + 1][x + 1] = <<x, y>> ]_vars

C11_Witness ==
  /\ pc = "returned"
  /\ args.second_wcs = args.first_wcs
  /\ args.first_wcs.naxis1 = 3 /\ args.first_wcs.naxis2 = 2
  /\ ~IsNone(args.first_wcs.sip) /\ args.first_wcs.cpdis = 1 /\ args.first_wcs.rot
  /\ loc.pixmap = << <<<<0, 0>>, <<1, 0>>, <<2, 0>>>>, <<<<0, 1>>, <<1, 1>>, <<2, 1>>>> >>

\* The exposure-time keywords of the primary header.
WindowKeys == {"EXPTIME", "EXPSTART", "EXPEND"}

\* C12 as stated: a blot product carries no exposure-time stamping: EXPTIME,
\* EXPSTART and EXPEND of the primary header written keep what the template
\* held, whatever record[0].texptime, build and single are.
C12_AsStated ==
  (pc = "done" /\ args.blot) =>
    \A k \in WindowKeys :
      /\ HasKey(WrittenPrimary, k) <=> HasKey(args.template.pri, k)
      /\ HasKey(WrittenPrimary, k) => WrittenPrimary[k] = args.template.pri[k]

\* C12 amended: a blot product is stamped like any other: when record[0].texptime
\* is computed (not 0) the primary header written has EXPTIME = record[0].texptime,
\* EXPSTART = record[0].texpstart and EXPEND = the texpend of record[0] (single)
\* or of the last record (not single); only when texptime is 0 do the three
\* keywords keep what the template held.
C12_BlotStamped ==
  (pc = "done" /\ args.blot) =>
    IF plist[1].texptime # 0
      THEN /\ \A k \in WindowKeys : HasKey(WrittenPrimary, k)
           /\ WrittenPrimary["EXPTIME"] = plist[1].texptime
           /\ WrittenPrimary["EXPSTART"] = plist[1].texpstart
           /\ WrittenPrimary["EXPEND"] =
                IF args.single THEN plist[1].texpend ELSE plist[Len(plist)].texpend
      ELSE \A k \in WindowKeys :
             /\ HasKey(WrittenPrimary, k) <=> HasKey(args.template.pri, k)
             /\ HasKey(WrittenPrimary, k) => WrittenPrimary[k] = args.template.pri[k]

C12_Witness ==
  /\ pc = "done"
  /\ args.blot /\ args.build /\ ~args.single
  /\ Len(plist) = 2
  /\ plist[1].texptime = 100 /\ plist[2].texpend = 300
  /\ args.template.pri["EXPTIME"] = 999
  /\ WrittenPrimary["EXPTIME"] = 100
  /\ WrittenPrimary["EXPSTART"] = 0
  /\ WrittenPrimary["EXPEND"] = 300

\* A write operation returned: writeFITS in combined-file mode, where the
\* primary and the science header are two headers of the file, or writeSingleFITS.
WroteTwoHeaders == (pc = "done" /\ self.build) \/ pc = "single_done"

WrittenFile == IF pc = "single_done" THEN fs[args.output] ELSE fs[self.output]

\* The keywords of the cards from the first INHERIT or EXPNAME card to the end.
TrailingKeys(cards) ==
  {cards[i].key : i \in {n \in 1..Len(cards) :
                           \E j \in 1..n : cards[j].key \in {"INHERIT", "EXPNAME"}}}

\* C13 as stated: in writeFITS and in writeSingleFITS, when the template
\* provider returns no science header, the cards of the primary header from the
\* first INHERIT or EXPNAME card on are moved into a new science header (none
\* when there is no such card), and the science-header fixups are applied to
\* it: MDRIZSKY and OBJECT removed, CCDCHIP set to -999.
C13_AsStated ==
  (WroteTwoHeaders /\ ~IsNone(args.template) /\ IsNone(args.template.sci)) =>
    LET moved  == TrailingKeys(args.template.cards)
        prihdr == WrittenFile.hdus[1].header
        scihdr == WrittenFile.hdus[2].header
    IN  /\ moved \cap DOMAIN prihdr = {}
        /\ \A k \in moved \ {"MDRIZSKY", "OBJECT", "CCDCHIP"} :
             HasKey(scihdr, k) /\ scihdr[k] = args.template.pri[k]
        /\ {"MDRIZSKY", "OBJECT"} \cap DOMAIN scihdr = {}
        /\ "CCDCHIP" \in moved => (HasKey(scihdr, "CCDCHIP") /\ scihdr["CCDCHIP"] = "-999")

\* C14 as stated: in every file writeFITS writes, in every mode, NEXTEND of the
\* file's primary header is the number of HDUs that follow the primary HDU in
\* that file (0 in the split-mode weight and context files, which hold one HDU).
C14_AsStated ==
  \A p \in DOMAIN fs :
    ~fs[p].old =>
      /\ HasKey(fs[p].hdus[1].header, "NEXTEND")
      /\ fs[p].hdus[1].header["NEXTEND"] = Len(fs[p].hdus) - 1

\* C15 as stated: provenance generation never changes the module-level
\* DRIZ_KEYWORDS: it keeps exactly its 15 codes, each with its default value and
\* its comment (the values are compared as text: a value can be a number).
C15_AsStated ==
  /\ DOMAIN DRIZ_KEYWORDS = DrizCodes
  /\ \A code \in DrizCodes :
       /\ ToString(DRIZ_KEYWORDS[code].value) = ToString(DrizDefaultValue(code))
       /\ DRIZ_KEYWORDS[code].comment = DrizComment(code)

====
